---- MODULE Spec2Model ----
(***************************************************************************)
(* Model of the two fixed-capacity event queues of openbook-v2-cu:         *)
(*   state/ringbuf.rs  EventQueue      (contiguous ring buffer)            *)
(*   state/dll.rs      DLLEventQueue   (index-linked list + free list)     *)
(* An account holds one of the two layouts (lib.rs RingBuf / DLList); the  *)
(* operations of a layout act on the account that holds it.                *)
(***************************************************************************)
EXTENDS Integers, Sequences, FiniteSets, TLC

\* ------------------------------------------------------------------ bounds
\* capacity of both queues (state::MAX_NUM_EVENTS, 488 in the build)
MAX_NUM_EVENTS == 3
\* payloads pushed by the callers are 1..MaxVal
MaxVal == 2
\* number of payloads one account accepts (a push_back on a full queue,
\* which stores nothing, stays possible past it)
MaxPushes == 4

\* ------------------------------------------------------- program constants
NULL == 65535
LAST_SLOT == MAX_NUM_EVENTS - 1
\* AnyEvent::zeroed(), the payload of a zero-filled arena
ZeroEvent == 0

\* width of the u16 index fields; the u32 and u64 fields (ring head and
\* count, seq_num) hold values far below their width within the bounds, and
\* a seq_num below 0 stands for that value plus 2^64 (a wrapped subtraction)
U16 == 65536

Slots == 0 .. (MAX_NUM_EVENTS - 1)
Values == 1 .. MaxVal
\* slot arguments handed to delete_slot / at: every valid index, the first
\* index past the array, and the sentinel
SlotArgs == Slots \cup {MAX_NUM_EVENTS, NULL}

VARIABLES
    kind,        \* layout held by the account: "DLLEventQueue" or "EventQueue"
    dll,         \* the DLLEventQueue arena: header and nodes
    inited,      \* DLLEventQueue::init has formatted the arena
    ring,        \* the EventQueue arena: header and buf
    op,          \* the last call: <<name, argument>>
    ret,         \* its result: [res |-> "Ok" | "Err" | "panic", val |-> payload]
    dllLive,     \* history: <<slot, payload>> of the live elements, oldest first
    ringPushed,  \* history: payloads accepted by EventQueue::push_back
    ringPopped,  \* history: payloads returned by EventQueue::pop_front
    dllPushes,   \* history: push_back calls that returned since the last init
    ringLive,    \* history: payloads pushed and neither popped nor reverted
    iter,        \* the iterator a caller holds on the queue, if any
    yielded,     \* the items its next() has returned so far
    lastYield,   \* the items of the traversal before it, if that one ended
    bench        \* lib.rs ring_buf: where the handler is, its vectors and loop index

vars == <<kind, dll, inited, ring, op, ret, dllLive, ringPushed, ringPopped,
          dllPushes, ringLive, iter, yielded, lastYield, bench>>

\* --------------------------------------------------------------- outcomes
Ok(q, v) == [q |-> q, res |-> "Ok", val |-> v]
Err(q, v) == [q |-> q, res |-> "Err", val |-> v]
\* a panic (failed assert!, index out of bounds) stops the call where it is
Panic(q) == [q |-> q, res |-> "panic", val |-> ZeroEvent]

\* nodes[i] / buf[i] panics unless i < MAX_NUM_EVENTS
InBounds(i) == i \in Slots

\* ================================================================ dll.rs
\* ---- DLLHeader
DLLHeader_count(h) == h.count
DLLHeader_free_head(h) == h.free_head
DLLHeader_used_head(h) == h.used_head
\* set_free_head that writes the neighbouring field
DLLHeader_set_free_head_used(h, value) == [h EXCEPT !.used_head = value]
DLLHeader_set_free_head(h, value) == [h EXCEPT !.free_head = value]
DLLHeader_set_used_head(h, value) == [h EXCEPT !.used_head = value]
DLLHeader_incr_count(h) == [h EXCEPT !.count = (h.count + 1) % U16]
\* decr_count that leaves count as it is
DLLHeader_decr_count_skip(h) == h
DLLHeader_decr_count(h) == [h EXCEPT !.count = (h.count - 1) % U16]
\* incr_event_id that counts a push twice
DLLHeader_incr_event_id_twice(h) == [h EXCEPT !.seq_num = h.seq_num + 2]
DLLHeader_incr_event_id(h) == [h EXCEPT !.seq_num = h.seq_num + 1]

\* ---- Node
\* is_free that reads the other link
Node_is_free_next(n) == n.next = NULL
Node_is_free(n) == n.prev = NULL
Node_next(n) == n.next
Node_prev(n) == n.prev
Node_set_next(n, next) == [n EXCEPT !.next = next % U16]
\* set_prev that writes the other link
Node_set_prev_next(n, prev) == [n EXCEPT !.next = prev % U16]
Node_set_prev(n, prev) == [n EXCEPT !.prev = prev % U16]

\* self.nodes[i].set_next(v) / set_prev(v) / event = v, for i in bounds
SetNext(q, i, v) == [q EXCEPT !.nodes[i] = Node_set_next(@, v)]
SetPrev(q, i, v) == [q EXCEPT !.nodes[i] = Node_set_prev(@, v)]
SetEvent(q, i, v) == [q EXCEPT !.nodes[i].event = v]
SetHeader(q, h) == [q EXCEPT !.header = h]

\* ---- DLLEventQueue
DLLEventQueue_zeroed ==
    [header |-> [free_head |-> 0, used_head |-> 0, count |-> 0, seq_num |-> 0],
     nodes  |-> [i \in Slots |-> [next |-> 0, prev |-> 0, event |-> ZeroEvent]]]

\* a loop of init that leaves prev as it finds it
init_node_keep_prev(n, i) == Node_set_next(n, i + 1)

\* one turn of the loop of init, on slot i
init_node(n, i) == Node_set_prev(Node_set_next(n, i + 1), NULL)

DLLEventQueue_init(q) ==
    LET h == [free_head |-> 0, used_head |-> NULL, count |-> 0, seq_num |-> 0]
        looped == [i \in Slots |-> init_node(q.nodes[i], i)]
    IN [header |-> h,
        nodes  |-> [looped EXCEPT ![LAST_SLOT] = Node_set_next(@, NULL)]]

DLLEventQueue_len(q) == DLLHeader_count(q.header)
DLLEventQueue_is_empty(q) == DLLEventQueue_len(q) = 0
DLLEventQueue_is_full(q) == DLLEventQueue_len(q) = MAX_NUM_EVENTS

\* push_back that links the new slot back to the head, not to the tail
push_back_store_prev_is_head(q, slot, value, new_next, new_prev) ==
    LET q1 == SetHeader(q, DLLHeader_incr_event_id(DLLHeader_incr_count(q.header)))
        q2 == SetEvent(q1, slot, value)
        q3 == SetNext(q2, slot, new_next)
    IN SetPrev(q3, slot, new_next)

\* lines 70-74 of push_back: slot is in bounds here
push_back_store(q, slot, value, new_next, new_prev) ==
    LET q1 == SetHeader(q, DLLHeader_incr_event_id(DLLHeader_incr_count(q.header)))
        q2 == SetEvent(q1, slot, value)
        q3 == SetNext(q2, slot, new_next)
    IN SetPrev(q3, slot, new_prev)

\* lines 51-74 of push_back: what follows the assert
push_back_link(q, value) ==
    LET slot == DLLHeader_free_head(q.header) IN
    IF DLLEventQueue_is_empty(q)
    THEN IF ~InBounds(slot) THEN Panic(q)
         ELSE LET h1 == DLLHeader_set_free_head(q.header, Node_next(q.nodes[slot]) % U16)
                  h2 == DLLHeader_set_used_head(h1, slot % U16)
              IN Ok(push_back_store(SetHeader(q, h2), slot, value, slot, slot), ZeroEvent)
    ELSE LET new_next == DLLHeader_used_head(q.header) IN
         IF ~InBounds(new_next) THEN Panic(q)
         ELSE LET new_prev == q.nodes[new_next].prev IN
              IF ~InBounds(new_prev) THEN Panic(q)
              ELSE LET q1 == SetNext(q, new_prev, slot)
                       q2 == SetPrev(q1, new_next, slot)
                   IN IF ~InBounds(slot) THEN Panic(q2)
                      ELSE LET h1 == DLLHeader_set_free_head(q2.header,
                                         Node_next(q2.nodes[slot]) % U16)
                           IN Ok(push_back_store(SetHeader(q2, h1), slot, value,
                                                 new_next, new_prev), ZeroEvent)

\* push_back without its assert
DLLEventQueue_push_back_unchecked(q, value) == push_back_link(q, value)

DLLEventQueue_push_back(q, value) ==
    IF DLLEventQueue_is_full(q) THEN Panic(q) ELSE push_back_link(q, value)

DLLEventQueue_front(q) ==
    IF DLLEventQueue_is_empty(q) THEN Err(q, ZeroEvent)
    ELSE IF ~InBounds(DLLHeader_used_head(q.header)) THEN Panic(q)
    ELSE Ok(q, q.nodes[DLLHeader_used_head(q.header)].event)

DLLEventQueue_at(q, slot) ==
    IF ~InBounds(slot) THEN Panic(q)
    ELSE IF Node_is_free(q.nodes[slot]) THEN Err(q, ZeroEvent)
    ELSE Ok(q, q.nodes[slot].event)

\* delete_slot that moves used_head only when the queue empties
delete_slot_used_head_keep(h, slot, next_slot) ==
    IF DLLHeader_count(h) = 1 THEN DLLHeader_set_used_head(h, NULL) ELSE h

\* delete_slot that forgets the NULL of the emptied queue
delete_slot_used_head_no_null(h, slot, next_slot) ==
    IF DLLHeader_used_head(h) = slot
    THEN DLLHeader_set_used_head(h, next_slot % U16)
    ELSE h

\* delete_slot that moves used_head whichever slot is deleted
delete_slot_used_head_always(h, slot, next_slot) ==
    IF DLLHeader_count(h) = 1 THEN DLLHeader_set_used_head(h, NULL)
    ELSE DLLHeader_set_used_head(h, next_slot % U16)

\* lines 111-115 of delete_slot
delete_slot_used_head(h, slot, next_slot) ==
    IF DLLHeader_count(h) = 1 THEN DLLHeader_set_used_head(h, NULL)
    ELSE IF DLLHeader_used_head(h) = slot
         THEN DLLHeader_set_used_head(h, next_slot % U16)
         ELSE h

\* delete_slot that never makes the freed slot the head of the free chain
delete_slot_unlink_keep_free_head(q, slot) ==
    LET prev_slot == Node_prev(q.nodes[slot])
        next_slot == Node_next(q.nodes[slot])
        next_free == DLLHeader_free_head(q.header)
    IN IF ~InBounds(prev_slot) THEN Panic(q)
       ELSE LET q1 == SetNext(q, prev_slot, next_slot) IN
            IF ~InBounds(next_slot) THEN Panic(q1)
            ELSE LET q2 == SetPrev(q1, next_slot, prev_slot)
                     h2 == delete_slot_used_head(q2.header, slot, next_slot)
                     h3 == DLLHeader_decr_count(h2)
                     q3 == SetNext(SetHeader(q2, h3), slot, next_free)
                     q4 == SetPrev(q3, slot, NULL)
                 IN Ok(q4, q4.nodes[slot].event)

\* delete_slot that reads free_head only after it has moved it
delete_slot_unlink_late_free(q, slot) ==
    LET prev_slot == Node_prev(q.nodes[slot])
        next_slot == Node_next(q.nodes[slot])
    IN IF ~InBounds(prev_slot) THEN Panic(q)
       ELSE LET q1 == SetNext(q, prev_slot, next_slot) IN
            IF ~InBounds(next_slot) THEN Panic(q1)
            ELSE LET q2 == SetPrev(q1, next_slot, prev_slot)
                     h1 == DLLHeader_set_free_head(q2.header, slot % U16)
                     h2 == delete_slot_used_head(h1, slot, next_slot)
                     h3 == DLLHeader_decr_count(h2)
                     next_free == DLLHeader_free_head(h3)
                     q3 == SetNext(SetHeader(q2, h3), slot, next_free)
                     q4 == SetPrev(q3, slot, NULL)
                 IN Ok(q4, q4.nodes[slot].event)

\* lines 102-121 of delete_slot: slot is in bounds and not free
delete_slot_unlink(q, slot) ==
    LET prev_slot == Node_prev(q.nodes[slot])
        next_slot == Node_next(q.nodes[slot])
        next_free == DLLHeader_free_head(q.header)
    IN IF ~InBounds(prev_slot) THEN Panic(q)
       ELSE LET q1 == SetNext(q, prev_slot, next_slot) IN
            IF ~InBounds(next_slot) THEN Panic(q1)
            ELSE LET q2 == SetPrev(q1, next_slot, prev_slot)
                     h1 == DLLHeader_set_free_head(q2.header, slot % U16)
                     h2 == delete_slot_used_head(h1, slot, next_slot)
                     h3 == DLLHeader_decr_count(h2)
                     q3 == SetNext(SetHeader(q2, h3), slot, next_free)
                     q4 == SetPrev(q3, slot, NULL)
                 IN Ok(q4, q4.nodes[slot].event)

\* delete_slot that looks at the slot before it looks at the count
DLLEventQueue_delete_slot_slot_first(q, slot) ==
    IF ~InBounds(slot) THEN Panic(q)
    ELSE IF Node_is_free(q.nodes[slot]) THEN Err(q, ZeroEvent)
    ELSE delete_slot_unlink(q, slot)

DLLEventQueue_delete_slot(q, slot) ==
    IF DLLEventQueue_is_empty(q) THEN Err(q, ZeroEvent)
    ELSE IF ~InBounds(slot) THEN Panic(q)
    ELSE IF Node_is_free(q.nodes[slot]) THEN Err(q, ZeroEvent)
    ELSE delete_slot_unlink(q, slot)

DLLEventQueue_delete(q) ==
    DLLEventQueue_delete_slot(q, DLLHeader_used_head(q.header))

\* ---- DLLEventQueueIterator: state [slot, index], items <<slot, event>>
DLLEventQueue_iter(q) == [slot |-> DLLHeader_used_head(q.header), index |-> 0]

\* an iterator that walks the chain backwards
iter_advance_prev(q, it) == [slot |-> Node_prev(q.nodes[it.slot]), index |-> it.index + 1]

\* the iterator after one Some(..) of next
iter_advance(q, it) == [slot |-> Node_next(q.nodes[it.slot]), index |-> it.index + 1]

\* the items next() yields from iterator state it until None; "panic" ends
\* the sequence when the walk leaves the array
RECURSIVE DLLIterator_collect(_, _)
DLLIterator_collect(q, it) ==
    IF it.index = DLLEventQueue_len(q) THEN <<>>
    ELSE IF ~InBounds(it.slot) THEN <<"panic">>
    ELSE <<(<<it.slot, q.nodes[it.slot].event>>)>>
         \o DLLIterator_collect(q, iter_advance(q, it))

DLLItems(q) == DLLIterator_collect(q, DLLEventQueue_iter(q))

\* ============================================================ ringbuf.rs
\* ---- EventQueueHeader
EventQueueHeader_head(h) == h.head
EventQueueHeader_set_head(h, value) == [h EXCEPT !.head = value]
EventQueueHeader_count(h) == h.count
EventQueueHeader_set_count(h, value) == [h EXCEPT !.count = value]
\* a push that does not count itself in seq_num
EventQueueHeader_incr_event_id_skip(h) == h

EventQueueHeader_incr_event_id(h) == [h EXCEPT !.seq_num = h.seq_num + 1]
\* decr_event_id that takes one off whatever n is
EventQueueHeader_decr_event_id_one(h, n) == [h EXCEPT !.seq_num = h.seq_num - 1]
EventQueueHeader_decr_event_id(h, n) == [h EXCEPT !.seq_num = h.seq_num - n]

\* ---- EventQueue
EventQueue_zeroed ==
    [header |-> [head |-> 0, count |-> 0, seq_num |-> 0],
     buf    |-> [i \in Slots |-> ZeroEvent]]

EventQueue_len(q) == EventQueueHeader_count(q.header)
EventQueue_is_empty(q) == EventQueue_len(q) = 0
\* full that lets the count reach the capacity and pass it
EventQueue_full_past(q) == EventQueueHeader_count(q.header) > MAX_NUM_EVENTS
EventQueue_full(q) == EventQueueHeader_count(q.header) = MAX_NUM_EVENTS

\* a write index that forgets head
push_back_slot_from_zero(h) == EventQueueHeader_count(h) % MAX_NUM_EVENTS

\* a write index that runs past the end of buf
push_back_slot_unwrapped(h) == EventQueueHeader_head(h) + EventQueueHeader_count(h)

\* line 45 of push_back
push_back_slot(h) ==
    (EventQueueHeader_head(h) + EventQueueHeader_count(h)) % MAX_NUM_EVENTS

EventQueue_push_back(q, value) ==
    IF EventQueue_full(q) THEN Err(q, value)
    ELSE LET slot == push_back_slot(q.header)
             q1 == [q EXCEPT !.buf[slot] = value]
             count == EventQueueHeader_count(q1.header)
             h1 == EventQueueHeader_set_count(q1.header, count + 1)
         IN IF ~InBounds(slot) THEN Panic(q)
            ELSE Ok(SetHeader(q1, EventQueueHeader_incr_event_id(h1)), ZeroEvent)

EventQueue_peek_front(q) ==
    IF EventQueue_is_empty(q) THEN Err(q, ZeroEvent)
    ELSE IF ~InBounds(EventQueueHeader_head(q.header)) THEN Panic(q)
    ELSE Ok(q, q.buf[EventQueueHeader_head(q.header)])

\* a head that runs past the end of buf
pop_front_head_unwrapped(head) == head + 1

\* line 78 of pop_front
pop_front_head(head) == (head + 1) % MAX_NUM_EVENTS

EventQueue_pop_front(q) ==
    IF EventQueue_is_empty(q) THEN Err(q, ZeroEvent)
    ELSE IF ~InBounds(EventQueueHeader_head(q.header)) THEN Panic(q)
    ELSE LET value == q.buf[EventQueueHeader_head(q.header)]
             count == EventQueueHeader_count(q.header)
             h1 == EventQueueHeader_set_count(q.header, count - 1)
             head == EventQueueHeader_head(h1)
             h2 == EventQueueHeader_set_head(h1, pop_front_head(head))
         IN Ok(SetHeader(q, h2), value)

\* seq_num -= n below zero panics in a build with overflow checks and wraps
\* in one without: both outcomes are returned
EventQueue_revert_pushes(q, desired_len) ==
    IF ~(desired_len <= EventQueueHeader_count(q.header)) THEN {Err(q, ZeroEvent)}
    ELSE LET len_diff == EventQueueHeader_count(q.header) - desired_len
             q1 == SetHeader(q, EventQueueHeader_set_count(q.header, desired_len))
             wrapped == Ok(SetHeader(q1, EventQueueHeader_decr_event_id(q1.header, len_diff)),
                           ZeroEvent)
         IN IF q1.header.seq_num >= len_diff THEN {wrapped} ELSE {wrapped, Panic(q1)}

\* ---- EventQueueIterator: state index, items are payloads
RECURSIVE EventQueueIterator_collect(_, _)
EventQueueIterator_collect(q, index) ==
    IF index = EventQueue_len(q) THEN <<>>
    ELSE <<q.buf[(EventQueueHeader_head(q.header) + index) % MAX_NUM_EVENTS]>>
         \o EventQueueIterator_collect(q, index + 1)

RingItems(q) == EventQueueIterator_collect(q, 0)

\* ================================================================ actions
\* no iter() result is held
NoIterator == [active |-> FALSE, slot |-> 0, index |-> 0, res |-> "Some"]
\* no traversal has ended
NoYield == [done |-> FALSE, items |-> <<>>]

\* no handler of lib.rs is running
NoBench == [pc |-> "idle", random |-> <<>>, sorted |-> <<>>, i |-> 0, n |-> 0]

\* the sequence s without its entries for slot
RECURSIVE WithoutSlot(_, _)
WithoutSlot(s, slot) ==
    IF s = <<>> THEN <<>>
    ELSE IF Head(s)[1] = slot THEN WithoutSlot(Tail(s), slot)
    ELSE <<Head(s)>> \o WithoutSlot(Tail(s), slot)

Init ==
    /\ kind \in {"DLLEventQueue", "EventQueue"}
    /\ dll = DLLEventQueue_zeroed
    /\ inited = FALSE
    /\ ring = EventQueue_zeroed
    /\ op = <<"load_init", ZeroEvent>>
    /\ ret = [res |-> "Ok", val |-> ZeroEvent]
    /\ dllLive = <<>>
    /\ ringPushed = <<>>
    /\ ringPopped = <<>>
    /\ dllPushes = 0
    /\ ringLive = <<>>
    /\ iter = NoIterator
    /\ yielded = <<>>
    /\ lastYield = NoYield
    /\ bench = NoBench

RingUnchanged == UNCHANGED <<ring, ringPushed, ringPopped, ringLive>>
DllUnchanged == UNCHANGED <<dll, inited, dllLive, dllPushes>>
IterUnchanged == UNCHANGED <<iter, yielded, lastYield>>
BenchUnchanged == UNCHANGED bench

\* ---- the linked layout (lib.rs d_l_list: init comes first)
DllInit ==
    /\ kind = "DLLEventQueue"
    /\ dll' = DLLEventQueue_init(dll)
    /\ inited' = TRUE
    /\ op' = <<"init", ZeroEvent>>
    /\ ret' = [res |-> "Ok", val |-> ZeroEvent]
    /\ dllLive' = <<>>
    /\ dllPushes' = 0
    /\ UNCHANGED kind
    /\ RingUnchanged
    /\ IterUnchanged
    /\ BenchUnchanged

DllPushBack ==
    /\ kind = "DLLEventQueue"
    /\ inited
    /\ dll.header.seq_num < MaxPushes \/ DLLEventQueue_is_full(dll)
    /\ \E value \in Values :
         LET o == DLLEventQueue_push_back(dll, value) IN
         /\ dll' = o.q
         /\ op' = <<"push_back", value>>
         /\ ret' = [res |-> o.res, val |-> o.val]
         /\ dllLive' = IF o.res = "Ok"
                       THEN Append(dllLive, <<DLLHeader_free_head(dll.header), value>>)
                       ELSE dllLive
         /\ dllPushes' = IF o.res = "Ok" THEN dllPushes + 1 ELSE dllPushes
    /\ UNCHANGED <<kind, inited>>
    /\ RingUnchanged
    /\ IterUnchanged
    /\ BenchUnchanged

DllDelete ==
    /\ kind = "DLLEventQueue"
    /\ inited
    /\ LET o == DLLEventQueue_delete(dll) IN
         /\ dll' = o.q
         /\ op' = <<"delete", DLLHeader_used_head(dll.header)>>
         /\ ret' = [res |-> o.res, val |-> o.val]
         /\ dllLive' = IF o.res = "Ok"
                       THEN WithoutSlot(dllLive, DLLHeader_used_head(dll.header))
                       ELSE dllLive
    /\ UNCHANGED <<kind, inited, dllPushes>>
    /\ RingUnchanged
    /\ IterUnchanged
    /\ BenchUnchanged

DllDeleteSlot ==
    /\ kind = "DLLEventQueue"
    /\ inited
    /\ \E slot \in SlotArgs :
         LET o == DLLEventQueue_delete_slot(dll, slot) IN
         /\ dll' = o.q
         /\ op' = <<"delete_slot", slot>>
         /\ ret' = [res |-> o.res, val |-> o.val]
         /\ dllLive' = IF o.res = "Ok" THEN WithoutSlot(dllLive, slot) ELSE dllLive
    /\ UNCHANGED <<kind, inited, dllPushes>>
    /\ RingUnchanged
    /\ IterUnchanged
    /\ BenchUnchanged

\* ---- the ring layout (lib.rs ring_buf: used as loaded, zero-filled)
RingPushBack ==
    /\ kind = "EventQueue"
    /\ Len(ringPushed) < MaxPushes \/ EventQueue_full(ring)
    /\ \E value \in Values :
         LET o == EventQueue_push_back(ring, value) IN
         /\ ring' = o.q
         /\ op' = <<"push_back", value>>
         /\ ret' = [res |-> o.res, val |-> o.val]
         /\ ringPushed' = IF o.res = "Ok" THEN Append(ringPushed, value) ELSE ringPushed
         /\ ringLive' = IF o.res = "Ok" THEN Append(ringLive, value) ELSE ringLive
    /\ UNCHANGED <<kind, ringPopped>>
    /\ DllUnchanged
    /\ IterUnchanged
    /\ BenchUnchanged

RingPopFront ==
    /\ kind = "EventQueue"
    /\ LET o == EventQueue_pop_front(ring) IN
         /\ ring' = o.q
         /\ op' = <<"pop_front", ZeroEvent>>
         /\ ret' = [res |-> o.res, val |-> o.val]
         /\ ringPopped' = IF o.res = "Ok" THEN Append(ringPopped, o.val) ELSE ringPopped
         /\ ringLive' = IF o.res = "Ok" /\ ringLive # <<>> THEN Tail(ringLive) ELSE ringLive
    /\ UNCHANGED <<kind, ringPushed>>
    /\ DllUnchanged
    /\ IterUnchanged
    /\ BenchUnchanged

RingRevertPushes ==
    /\ kind = "EventQueue"
    /\ \E desired_len \in 0 .. (MAX_NUM_EVENTS + 1) :
       \E o \in EventQueue_revert_pushes(ring, desired_len) :
         /\ ring' = o.q
         /\ op' = <<"revert_pushes", desired_len>>
         /\ ret' = [res |-> o.res, val |-> o.val]
         /\ ringLive' = IF o.res = "Ok" /\ desired_len <= Len(ringLive)
                        THEN SubSeq(ringLive, 1, desired_len)
                        ELSE ringLive
    /\ UNCHANGED <<kind, ringPushed, ringPopped>>
    /\ DllUnchanged
    /\ IterUnchanged
    /\ BenchUnchanged

DllNext == DllInit \/ DllPushBack \/ DllDelete \/ DllDeleteSlot
RingNext == RingPushBack \/ RingPopFront \/ RingRevertPushes

Next ==
    \/ DllInit
    \/ DllPushBack
    \/ DllDelete
    \/ DllDeleteSlot
    \/ RingPushBack
    \/ RingPopFront
    \/ RingRevertPushes

Spec == Init /\ [][Next]_vars

\* the ring layout under push_back and pop_front only
NextRingFifo == RingPushBack \/ RingPopFront
SpecRingFifo == Init /\ [][NextRingFifo]_vars

\* ============================================================= iteration
\* one call of next() on iterator i of queue q: the iterator after it and the
\* item it returned, if any; res is "Some", "None" or "panic"
DLLEventQueueIterator_next(q, i) ==
    IF i.index = DLLEventQueue_len(q)
    THEN [it |-> [i EXCEPT !.res = "None"], items |-> <<>>]
    ELSE IF ~InBounds(i.slot)
    THEN [it |-> [i EXCEPT !.res = "panic"], items |-> <<>>]
    ELSE LET a == iter_advance(q, i)
         IN [it    |-> [i EXCEPT !.slot = a.slot, !.index = a.index, !.res = "Some"],
             items |-> <<(<<i.slot, q.nodes[i.slot].event>>)>>]

EventQueueIterator_next(q, i) ==
    IF i.index = EventQueue_len(q)
    THEN [it |-> [i EXCEPT !.res = "None"], items |-> <<>>]
    ELSE [it    |-> [i EXCEPT !.index = i.index + 1, !.res = "Some"],
          items |-> <<q.buf[(EventQueueHeader_head(q.header) + i.index)
                            % MAX_NUM_EVENTS]>>]

\* iter(): a fresh traversal; the one before it is remembered if it ended
IterStart ==
    /\ (kind = "DLLEventQueue" /\ inited) \/ kind = "EventQueue"
    /\ iter' = IF kind = "DLLEventQueue"
               THEN [active |-> TRUE, slot |-> DLLEventQueue_iter(dll).slot,
                     index |-> DLLEventQueue_iter(dll).index, res |-> "Some"]
               ELSE [active |-> TRUE, slot |-> 0, index |-> 0, res |-> "Some"]
    /\ yielded' = <<>>
    /\ lastYield' = IF iter.active /\ iter.res = "None"
                    THEN [done |-> TRUE, items |-> yielded]
                    ELSE lastYield
    /\ UNCHANGED <<kind, op, ret>>
    /\ DllUnchanged
    /\ RingUnchanged
    /\ BenchUnchanged

\* next() on the iterator held; the queue is borrowed, not changed
IterNext ==
    /\ iter.active
    /\ iter.res = "Some"
    /\ LET o == IF kind = "DLLEventQueue"
                THEN DLLEventQueueIterator_next(dll, iter)
                ELSE EventQueueIterator_next(ring, iter)
       IN /\ iter' = o.it
          /\ yielded' = yielded \o o.items
    /\ UNCHANGED <<kind, op, ret, lastYield>>
    /\ DllUnchanged
    /\ RingUnchanged
    /\ BenchUnchanged

\* the iterator is dropped and the borrow of the queue ends
IterDrop ==
    /\ iter.active
    /\ iter' = NoIterator
    /\ yielded' = <<>>
    /\ lastYield' = NoYield
    /\ UNCHANGED <<kind, op, ret>>
    /\ DllUnchanged
    /\ RingUnchanged
    /\ BenchUnchanged

\* the queue changes only while no iterator borrows it
ItInit == ~iter.active /\ ~inited /\ DllInit
ItDllPush == ~iter.active /\ DllPushBack
ItDllDelete == ~iter.active /\ DllDeleteSlot /\ ret'.res = "Ok"
ItRingPush == ~iter.active /\ RingPushBack
ItRingPop == ~iter.active /\ RingPopFront

NextIter ==
    \/ ItInit
    \/ ItDllPush
    \/ ItDllDelete
    \/ ItRingPush
    \/ ItRingPop
    \/ IterStart
    \/ IterNext
    \/ IterDrop
SpecIter == Init /\ [][NextIter]_vars

\* ================================================================ chains
\* the slots met from s along next while the index is in bounds, at most
\* fuel of them
RECURSIVE Walk(_, _, _)
Walk(q, s, fuel) ==
    IF fuel = 0 \/ ~InBounds(s) THEN <<>>
    ELSE <<s>> \o Walk(q, Node_next(q.nodes[s]), fuel - 1)

\* the index at which that walk stops
RECURSIVE WalkEnd(_, _, _)
WalkEnd(q, s, fuel) ==
    IF fuel = 0 \/ ~InBounds(s) THEN s
    ELSE WalkEnd(q, Node_next(q.nodes[s]), fuel - 1)

Range(s) == {s[i] : i \in 1 .. Len(s)}
Distinct(s) == Cardinality(Range(s)) = Len(s)
IsPrefix(s, t) == Len(s) <= Len(t) /\ SubSeq(t, 1, Len(s)) = s

UsedChain(q) == Walk(q, DLLHeader_used_head(q.header), MAX_NUM_EVENTS + 1)
FreeChain(q) == Walk(q, DLLHeader_free_head(q.header), MAX_NUM_EVENTS + 1)
FreeChainEnd(q) == WalkEnd(q, DLLHeader_free_head(q.header), MAX_NUM_EVENTS + 1)
UsedSet(q) == Range(UsedChain(q))
FreeSet(q) == Range(FreeChain(q))

Linked == kind = "DLLEventQueue" /\ inited
Called(name) == op[1] = name

\* ================================================================ claims

\* C1: linked layout, every state after init(): exactly count slots are
\* reachable from used_head along next and the chain closes on used_head
\* after count steps; the chain from free_head has exactly N - count distinct
\* slots and ends in NULL; every slot is in exactly one of the two chains.
C1_ChainsPartitionSlots ==
    Linked =>
      LET n == DLLHeader_count(dll.header) IN
      /\ Cardinality(UsedSet(dll)) = n
      /\ n > 0 => /\ Len(UsedChain(dll)) >= n + 1
                  /\ UsedChain(dll)[n + 1] = DLLHeader_used_head(dll.header)
      /\ Len(FreeChain(dll)) = MAX_NUM_EVENTS - n
      /\ Distinct(FreeChain(dll))
      /\ FreeChainEnd(dll) = NULL
      /\ UsedSet(dll) \cap FreeSet(dll) = {}
      /\ UsedSet(dll) \cup FreeSet(dll) = Slots
      /\ Cardinality(FreeSet(dll)) + Cardinality(UsedSet(dll)) = MAX_NUM_EVENTS

\* a delete_slot succeeded on a queue that had reused freed slots, and left
\* both chains non-empty
C1_Witness ==
    /\ Linked
    /\ Called("delete_slot")
    /\ ret.res = "Ok"
    /\ DLLHeader_count(dll.header) >= 1
    /\ DLLHeader_count(dll.header) < MAX_NUM_EVENTS
    /\ dll.header.seq_num > MAX_NUM_EVENTS

\* C2: linked layout: the iterator yields exactly the elements pushed and not
\* yet deleted, with the slot each one lives in, in insertion order, whatever
\* slots the free list handed out.
C2_IterationInInsertionOrder ==
    Linked => DLLItems(dll) = dllLive

\* a push reused a freed slot below the slot of an older live element
C2_Witness ==
    /\ Linked
    /\ Called("push_back")
    /\ ret.res = "Ok"
    /\ Len(dllLive) >= 2
    /\ dllLive[Len(dllLive)][1] < dllLive[1][1]
    /\ dllLive[Len(dllLive)][2] # dllLive[1][2]

\* C3: ring layout under push_back and pop_front only: the payloads returned
\* by pop_front are, in order, a prefix of the payloads accepted by push_back.
C3_RingFifo ==
    kind = "EventQueue" => IsPrefix(ringPopped, ringPushed)

\* more elements were popped than the buffer holds: the live window wrapped
C3_Witness ==
    /\ kind = "EventQueue"
    /\ Called("pop_front")
    /\ ret.res = "Ok"
    /\ Len(ringPopped) >= MAX_NUM_EVENTS + 1
    /\ ringPopped[MAX_NUM_EVENTS + 1] # ringPopped[1]

SeqNum == IF kind = "DLLEventQueue" THEN dll.header.seq_num ELSE ring.header.seq_num

\* C4: in both layouts a successful push_back adds exactly 1 to seq_num; a
\* failed push_back, pop_front, delete and delete_slot (failed or not) leave
\* it as it is; among the queue operations (all calls but init, which
\* formats the header) only revert_pushes lowers it.
C4_SeqNumSteps ==
    [][/\ (op'[1] = "push_back" /\ ret'.res = "Ok") => SeqNum' = SeqNum + 1
       /\ (op'[1] = "push_back" /\ ret'.res # "Ok") => SeqNum' = SeqNum
       /\ op'[1] \in {"pop_front", "delete", "delete_slot"} => SeqNum' = SeqNum
       /\ (op'[1] # "init" /\ SeqNum' < SeqNum) =>
              (kind = "EventQueue" /\ op'[1] = "revert_pushes")
      ]_vars

\* a delete_slot succeeded after several pushes and the counter kept them
C4_Witness ==
    /\ Linked
    /\ Called("delete_slot")
    /\ ret.res = "Ok"
    /\ dll.header.seq_num = MAX_NUM_EVENTS + 1
    /\ DLLHeader_count(dll.header) = 0

\* C5: ring layout: push_back on a full queue returns Err with the rejected
\* payload and leaves head, count, seq_num and every slot of buf unchanged.
C5_RingPushOnFull ==
    [][(kind = "EventQueue" /\ op'[1] = "push_back"
            /\ EventQueueHeader_count(ring.header) = MAX_NUM_EVENTS)
         => (ret'.res = "Err" /\ ret'.val = op'[2] /\ ring' = ring)
      ]_vars

\* a push was rejected by a full ring whose window starts past slot 0
C5_Witness ==
    /\ kind = "EventQueue"
    /\ Called("push_back")
    /\ ret.res = "Err"
    /\ ret.val = op[2]
    /\ EventQueueHeader_count(ring.header) = MAX_NUM_EVENTS
    /\ EventQueueHeader_head(ring.header) > 0

\* C6: on an empty queue, ring pop_front and linked delete and
\* delete_slot(any slot argument) return Err and change neither the header
\* nor any slot.
C6_RemoveFromEmpty ==
    [][/\ (kind = "EventQueue" /\ op'[1] = "pop_front"
              /\ EventQueueHeader_count(ring.header) = 0)
            => (ret'.res = "Err" /\ ring' = ring)
       /\ (Linked /\ op'[1] \in {"delete", "delete_slot"}
              /\ DLLHeader_count(dll.header) = 0)
            => (ret'.res = "Err" /\ dll' = dll)
      ]_vars

\* delete_slot with an index past the array failed on a queue that had been
\* used and emptied
C6_Witness ==
    /\ Linked
    /\ Called("delete_slot")
    /\ op[2] \notin Slots
    /\ ret.res = "Err"
    /\ DLLHeader_count(dll.header) = 0
    /\ dll.header.seq_num > 0

\* C7: linked layout: delete_slot(s) on a non-empty queue, s a valid index of
\* a slot of the free chain, returns Err and leaves header and nodes
\* unchanged; a delete_slot(s) right after a successful delete_slot(s) fails.
C7_DeleteFreeSlot ==
    [][/\ (Linked /\ op'[1] = "delete_slot" /\ op'[2] \in FreeSet(dll)
              /\ DLLHeader_count(dll.header) > 0)
            => (ret'.res = "Err" /\ dll' = dll)
       /\ (Linked /\ op[1] = "delete_slot" /\ ret.res = "Ok"
              /\ op'[1] = "delete_slot" /\ op'[2] = op[2])
            => (ret'.res = "Err" /\ dll' = dll)
      ]_vars

\* delete_slot failed on the slot freed last while other elements are live
C7_Witness ==
    /\ Linked
    /\ Called("delete_slot")
    /\ ret.res = "Err"
    /\ DLLHeader_count(dll.header) > 0
    /\ op[2] = DLLHeader_free_head(dll.header)

\* C8: linked layout: delete_slot(s) with s >= N (NULL included) returns Err
\* and leaves the arena unchanged, in every state after init().
C8_OutOfRangeSlotIsErr ==
    [][(Linked /\ op'[1] = "delete_slot" /\ op'[2] \notin Slots)
         => (ret'.res = "Err" /\ dll' = dll)
      ]_vars

\* C9: linked layout: push_back on a full queue panics with header and nodes
\* as they were; count never exceeds N, is N exactly when free_head is NULL,
\* and a push that succeeds took a slot below N from free_head.
C9_PushOnFullTraps ==
    [][Linked' =>
       /\ (Linked /\ op'[1] = "push_back"
              /\ DLLHeader_count(dll.header) = MAX_NUM_EVENTS)
            => (ret'.res = "panic" /\ dll' = dll)
       /\ (Linked /\ op'[1] = "push_back" /\ ret'.res = "Ok")
            => /\ DLLHeader_free_head(dll.header) \in Slots
               /\ DLLHeader_count(dll.header) < MAX_NUM_EVENTS
       /\ (op'[1] = "push_back" /\ ret'.res = "panic")
            => DLLHeader_count(dll.header) = MAX_NUM_EVENTS
       /\ DLLHeader_count(dll'.header) <= MAX_NUM_EVENTS
       /\ (DLLHeader_count(dll'.header) = MAX_NUM_EVENTS)
            <=> (DLLHeader_free_head(dll'.header) = NULL)
      ]_vars

\* a push panicked on a full queue whose slots had been freed and reused
C9_Witness ==
    /\ Linked
    /\ Called("push_back")
    /\ ret.res = "panic"
    /\ DLLHeader_count(dll.header) = MAX_NUM_EVENTS
    /\ DLLHeader_used_head(dll.header) # 0

\* C10: linked layout: right after init(), whatever the arena held:
\* free_head = 0, used_head = NULL, count = 0, seq_num = 0, every slot has
\* prev = NULL, slot i links to i + 1 and the last slot to NULL, and the walk
\* from free_head meets the N slots 0, 1, ..., N - 1 once each.
C10_AfterInit ==
    (kind = "DLLEventQueue" /\ Called("init")) =>
      /\ dll.header.free_head = 0
      /\ dll.header.used_head = NULL
      /\ dll.header.count = 0
      /\ dll.header.seq_num = 0
      /\ \A i \in Slots :
           /\ dll.nodes[i].prev = NULL
           /\ dll.nodes[i].next = IF i = MAX_NUM_EVENTS - 1 THEN NULL ELSE i + 1
      /\ FreeChain(dll) = [i \in 1 .. MAX_NUM_EVENTS |-> i - 1]
      /\ FreeChainEnd(dll) = NULL

\* init() ran on an arena whose slots still hold payloads of an earlier use
C10_Witness ==
    /\ kind = "DLLEventQueue"
    /\ Called("init")
    /\ \A i \in Slots : dll.nodes[i].event # ZeroEvent


\* ============================================================ round trip
\* a freshly loaded account is formatted once, takes K <= N pushes, and then
\* only delete_slot calls on live slots, in any order
RtInit == ~inited /\ DllInit
RtPush ==
    /\ op[1] \in {"init", "push_back"}
    /\ ~DLLEventQueue_is_full(dll)
    /\ DllPushBack
RtDelete ==
    /\ op[1] \in {"push_back", "delete_slot"}
    /\ DllDeleteSlot
    /\ ret'.res = "Ok"

NextRoundTrip == RtInit \/ RtPush \/ RtDelete
SpecRoundTrip == Init /\ [][NextRoundTrip]_vars

\* C11: linked layout, init() then K pushes then delete_slot of live slots in
\* any order: seq_num is the number K of pushes whatever was deleted, and once
\* the K elements are deleted count = 0, used_head = NULL and all N slots are
\* free, tagged and chained.
C11_RoundTrip ==
    Linked =>
      /\ dll.header.seq_num = dllPushes
      /\ (Called("delete_slot") /\ dllLive = <<>>) =>
            /\ DLLHeader_count(dll.header) = 0
            /\ DLLHeader_used_head(dll.header) = NULL
            /\ \A i \in Slots : Node_is_free(dll.nodes[i])
            /\ FreeSet(dll) = Slots
            /\ FreeChainEnd(dll) = NULL

\* N elements were pushed and all deleted, the first pushed (slot 0) neither
\* first nor last
C11_Witness ==
    /\ Linked
    /\ Called("delete_slot")
    /\ dllPushes = MAX_NUM_EVENTS
    /\ DLLHeader_count(dll.header) = 0
    /\ Walk(dll, DLLHeader_free_head(dll.header), 2)[2] = 0


\* the step is a delete or delete_slot call that returned Ok(event)
DeleteOk == op'[1] \in {"delete", "delete_slot"} /\ ret'.res = "Ok"
\* the step is a push_back call that returned
PushOk == op'[1] = "push_back" /\ ret'.res = "Ok"

\* C12: linked layout, the free list is a stack: a successful delete_slot(s)
\* leaves free_head = s and node[s].next = the free_head before it; a
\* successful push_back stores its payload in the slot free_head named and
\* moves free_head to that slot's next, so a push right after a delete of s
\* fills s and restores the free_head of before the delete.
C12_FreeListIsLifo ==
    [][Linked =>
       /\ DeleteOk =>
            /\ DLLHeader_free_head(dll'.header) = op'[2]
            /\ Node_next(dll'.nodes[op'[2]]) = DLLHeader_free_head(dll.header)
       /\ PushOk =>
            LET s == DLLHeader_free_head(dll.header) IN
            /\ s \in Slots
            /\ dll'.nodes[s].event = op'[2]
            /\ ~Node_is_free(dll'.nodes[s])
            /\ DLLHeader_free_head(dll'.header) = Node_next(dll.nodes[s])
       /\ (op[1] \in {"delete", "delete_slot"} /\ ret.res = "Ok" /\ PushOk) =>
            /\ dll'.nodes[op[2]].event = op'[2]
            /\ DLLHeader_free_head(dll'.header) = Node_next(dll.nodes[op[2]])
      ]_vars

\* a push took the slot freed last and left free_head on a slot freed before
\* it, below the one just filled
C12_Witness ==
    /\ Linked
    /\ Called("push_back")
    /\ ret.res = "Ok"
    /\ dllLive # <<>>
    /\ DLLHeader_free_head(dll.header) \in Slots
    /\ DLLHeader_free_head(dll.header) < dllLive[Len(dllLive)][1]
    /\ DLLHeader_count(dll.header) + 2 <= MAX_NUM_EVENTS


\* ------------------------------------------------------------ scenario B
\* the slots of the live elements, oldest first
LiveSlots == [i \in 1 .. Len(dllLive) |-> dllLive[i][1]]
\* n pushes since init and c elements live
Pushed(n, c) == Linked /\ dllPushes = n /\ DLLHeader_count(dll.header) = c

\* init, push, push: slots 0 and 1 hold the two elements
B_TwoPushed == Pushed(2, 2)
\* ... delete_slot(0): the second element, in slot 1, is the only one left
B_FirstDeleted == Pushed(2, 1) /\ LiveSlots = <<1>>
\* ... delete_slot(1): empty again, slot 1 freed last
B_BothDeleted == Pushed(2, 0) /\ DLLHeader_free_head(dll.header) = 1
\* ... push: the third push has returned and its element is the only one
B_OneRefilled == Pushed(3, 1) /\ Called("push_back") /\ ret.res = "Ok"

\* the steps of the scenario up to the second delete
B_Steps ==
    /\ (kind = "DLLEventQueue" /\ op'[1] = "init")
          => DLLHeader_free_head(dll'.header) = 0
    /\ (Pushed(0, 0) /\ PushOk) => DLLHeader_free_head(dll'.header) = 1
    /\ (Pushed(1, 1) /\ PushOk) => DLLHeader_free_head(dll'.header) = 2
    /\ (B_TwoPushed /\ DeleteOk /\ op'[2] = 0)
          => DLLHeader_free_head(dll'.header) = 0
    /\ (B_FirstDeleted /\ DeleteOk /\ op'[2] = 1)
          => DLLHeader_free_head(dll'.header) = 1

\* C13 as stated: ... and the next two pushes reuse slot 0, then slot 1.
C13_ScenarioB_ZeroThenOne ==
    [][/\ B_Steps
       /\ (B_BothDeleted /\ PushOk) => LiveSlots' = <<0>>
       /\ (B_OneRefilled /\ PushOk) => LiveSlots' = <<0, 1>>
      ]_vars

\* C13, amended: scenario B: after init free_head = 0; after a push, 1;
\* after a second push, 2; after delete_slot(0), 0; after delete_slot(1), 1;
\* the next two pushes reuse slot 1, then slot 0 (free_head 0, then 2).
C13_ScenarioB_OneThenZero ==
    [][/\ B_Steps
       /\ (B_BothDeleted /\ PushOk)
            => (LiveSlots' = <<1>> /\ DLLHeader_free_head(dll'.header) = 0)
       /\ (B_OneRefilled /\ LiveSlots = <<1>> /\ PushOk)
            => (LiveSlots' = <<1, 0>> /\ DLLHeader_free_head(dll'.header) = 2)
      ]_vars

\* the scenario has run to its end: the fourth push filled slot 0, after the
\* third had filled slot 1
C13_Witness ==
    /\ Pushed(4, 2)
    /\ Called("push_back")
    /\ ret.res = "Ok"
    /\ LiveSlots = <<1, 0>>
    /\ DLLHeader_free_head(dll.header) = 2


Ring == kind = "EventQueue"

\* C14: ring layout: a successful push_back writes its payload at index
\* (head + count) mod N, inside buf, touches no other slot, and leaves head
\* alone; a push on a full ring fails; the push that follows a pop_front from
\* a full ring succeeds and fills the slot the old head has vacated.
C14_RingPushWraps ==
    [][Ring =>
       LET head == EventQueueHeader_head(ring.header)
           count == EventQueueHeader_count(ring.header)
       IN
       /\ PushOk =>
            LET s == (head + count) % MAX_NUM_EVENTS IN
            /\ DOMAIN ring'.buf = Slots
            /\ ring'.buf[s] = op'[2]
            /\ \A i \in Slots \ {s} : ring'.buf[i] = ring.buf[i]
            /\ EventQueueHeader_count(ring'.header) = count + 1
            /\ EventQueueHeader_head(ring'.header) = head
       /\ op'[1] = "push_back" => ret'.res # "panic"
       /\ (op'[1] = "push_back" /\ count = MAX_NUM_EVENTS) => ret'.res = "Err"
       /\ (Called("pop_front") /\ ret.res = "Ok" /\ count = MAX_NUM_EVENTS - 1
              /\ op'[1] = "push_back")
            => /\ ret'.res = "Ok"
               /\ ring'.buf[(head + MAX_NUM_EVENTS - 1) % MAX_NUM_EVENTS] = op'[2]
               /\ EventQueueHeader_count(ring'.header) = MAX_NUM_EVENTS
      ]_vars

\* N pushes filled the ring, one pop moved head to slot 1, and the next push
\* put a different payload in slot 0
C14_Witness ==
    /\ Ring
    /\ Called("push_back")
    /\ ret.res = "Ok"
    /\ Len(ringPushed) = MAX_NUM_EVENTS + 1
    /\ EventQueueHeader_count(ring.header) = MAX_NUM_EVENTS
    /\ EventQueueHeader_head(ring.header) = 1
    /\ ring.buf[0] = op[2]
    /\ ring.buf[0] # ringPushed[1]


\* C15: ring layout, revert_pushes(desired_len): with desired_len > count it
\* returns Err and changes nothing; otherwise it returns Ok, count becomes
\* desired_len, seq_num drops by the old count minus desired_len (and stays
\* at or above 0), head and buf are untouched, and the queue then holds the
\* oldest desired_len elements in their order.
C15_RevertPushes ==
    [][(Ring /\ op'[1] = "revert_pushes") =>
       LET desired_len == op'[2]
           count == EventQueueHeader_count(ring.header)
       IN IF desired_len > count
          THEN ret'.res = "Err" /\ ring' = ring
          ELSE /\ ret'.res = "Ok"
               /\ EventQueueHeader_count(ring'.header) = desired_len
               /\ ring'.header.seq_num = ring.header.seq_num - (count - desired_len)
               /\ ring'.header.seq_num >= 0
               /\ EventQueueHeader_head(ring'.header) = EventQueueHeader_head(ring.header)
               /\ ring'.buf = ring.buf
               /\ RingItems(ring') = SubSeq(ringLive, 1, desired_len)
      ]_vars

\* a revert cut the newest elements off a window that starts past slot 0 and
\* kept at least one
C15_Witness ==
    /\ Ring
    /\ Called("revert_pushes")
    /\ ret.res = "Ok"
    /\ op[2] >= 1
    /\ EventQueueHeader_count(ring.header) = op[2]
    /\ EventQueueHeader_head(ring.header) > 0
    /\ ring.header.seq_num < Len(ringPushed)


\* C16: ring layout, every state reached from the zero-filled arena by
\* push_back, pop_front and revert_pushes: 0 <= count <= N, 0 <= head < N, and
\* the live elements, oldest first, are the contents of slots head, head + 1,
\* ..., head + count - 1 taken modulo N.
C16_RingWindow ==
    Ring =>
      LET head == EventQueueHeader_head(ring.header)
          count == EventQueueHeader_count(ring.header)
      IN /\ 0 <= count /\ count <= MAX_NUM_EVENTS
         /\ 0 <= head /\ head < MAX_NUM_EVENTS
         /\ Len(ringLive) = count
         /\ \A i \in 1 .. Len(ringLive) :
              ring.buf[(head + i - 1) % MAX_NUM_EVENTS] = ringLive[i]

\* pops moved head to the last slot and pushes then made a window of two
\* different payloads that wraps from the last slot to slot 0
C16_Witness ==
    /\ Ring
    /\ Called("push_back")
    /\ ret.res = "Ok"
    /\ EventQueueHeader_head(ring.header) = MAX_NUM_EVENTS - 1
    /\ EventQueueHeader_count(ring.header) = 2
    /\ Len(ringPopped) = MAX_NUM_EVENTS - 1
    /\ ringLive[1] # ringLive[2]


\* C17: linked layout, every state after init(): used_head = NULL exactly
\* when count = 0; when count > 0, used_head is an index below N of a slot
\* that is tagged used and holds the oldest live element.
C17_UsedHeadNullIffEmpty ==
    Linked =>
      LET used_head == DLLHeader_used_head(dll.header)
          count == DLLHeader_count(dll.header)
      IN /\ (used_head = NULL) <=> (count = 0)
         /\ count > 0 => /\ used_head \in Slots
                         /\ ~Node_is_free(dll.nodes[used_head])
                         /\ dllLive # <<>>
                         /\ used_head = dllLive[1][1]

\* the head was deleted and used_head moved on to the last slot
C17_Witness ==
    /\ Linked
    /\ Called("delete")
    /\ ret.res = "Ok"
    /\ DLLHeader_count(dll.header) > 0
    /\ DLLHeader_used_head(dll.header) = MAX_NUM_EVENTS - 1


\* the occupancy tag of slot s in arena q
Tagged(q, s) == q.nodes[s].prev = NULL

\* C18: linked layout: after init() a slot has prev = NULL exactly when it is
\* on the free chain, and no slot of the used chain has it; over the queue
\* operations (all calls but init, which formats every slot) a slot goes from
\* free to used only as the free_head a successful push_back takes, from used
\* to free only as the target of a successful delete or delete_slot, and
\* those two slots do change.
C18_OccupancyTag ==
    [][/\ Linked' =>
            \A s \in Slots :
              /\ Tagged(dll', s) <=> (s \in FreeSet(dll'))
              /\ (s \in UsedSet(dll')) => ~Tagged(dll', s)
       /\ (Linked /\ op'[1] # "init") =>
            /\ \A s \in Slots :
                 /\ (Tagged(dll, s) /\ ~Tagged(dll', s))
                       => (PushOk /\ s = DLLHeader_free_head(dll.header))
                 /\ (~Tagged(dll, s) /\ Tagged(dll', s))
                       => (DeleteOk /\ s = op'[2])
            /\ PushOk => ~Tagged(dll', DLLHeader_free_head(dll.header))
            /\ DeleteOk => (~Tagged(dll, op'[2]) /\ Tagged(dll', op'[2]))
      ]_vars

\* a push took a slot that a delete_slot had freed: the slot has been free,
\* used, free and used again, and a free slot with a stale payload remains
C18_Witness ==
    /\ Linked
    /\ Called("push_back")
    /\ ret.res = "Ok"
    /\ dllPushes > MAX_NUM_EVENTS
    /\ \E s \in Slots : Tagged(dll, s) /\ dll.nodes[s].event # ZeroEvent


\* C19: iteration on either layout: an iterator never panics, has yielded
\* index items, and returns None exactly after count of them; the ring's
\* items are buf[(head + i) mod N] for i = 0 .. count - 1; the linked items
\* are the slots met from used_head along next with their payloads, the live
\* elements oldest first, and the walk is back at used_head when it ends; on an
\* empty queue nothing is yielded and no slot is indexed; a second iter() on
\* the unmodified queue yields the same items as the traversal that ended
\* before it.
C19_Iteration ==
    iter.active =>
      LET n == IF Ring THEN EventQueue_len(ring) ELSE DLLEventQueue_len(dll) IN
      /\ iter.res # "panic"
      /\ Len(yielded) = iter.index
      /\ iter.index <= n
      /\ iter.res = "None" => Len(yielded) = n
      /\ Ring =>
           /\ \A i \in 1 .. Len(yielded) :
                yielded[i] = ring.buf[(EventQueueHeader_head(ring.header) + i - 1)
                                      % MAX_NUM_EVENTS]
           /\ yielded = SubSeq(ringLive, 1, Len(yielded))
      /\ ~Ring =>
           /\ yielded = SubSeq(dllLive, 1, Len(yielded))
           /\ [i \in 1 .. Len(yielded) |-> yielded[i][1]]
                 = Walk(dll, DLLHeader_used_head(dll.header), Len(yielded))
           /\ (iter.res = "None" /\ n > 0) => iter.slot = DLLHeader_used_head(dll.header)
           /\ n = 0 => (iter.slot = NULL /\ yielded = <<>>)
      /\ (iter.res = "None" /\ lastYield.done) => yielded = lastYield.items

\* a second traversal of a full linked queue has ended like the first, and
\* the items did not come in slot order
C19_Witness ==
    /\ Linked
    /\ iter.active
    /\ iter.res = "None"
    /\ lastYield.done
    /\ Len(yielded) = MAX_NUM_EVENTS
    /\ yielded[1][1] > yielded[2][1]
    /\ yielded[1][2] # yielded[2][2]


\* C20: linked layout, a successful delete_slot(s): used_head becomes
\* node[s].next if s was used_head (NULL if count was 1) and otherwise stays;
\* count drops by exactly 1; the payload of every other slot is unchanged; the
\* value returned is the payload that was stored in s, the one pushed there.
C20_DeleteSlotEffect ==
    [][(Linked /\ DeleteOk) =>
       LET s == op'[2]
           used_head == DLLHeader_used_head(dll.header)
           count == DLLHeader_count(dll.header)
       IN /\ DLLHeader_used_head(dll'.header) =
               IF s # used_head THEN used_head
               ELSE IF count = 1 THEN NULL
               ELSE dll.nodes[s].next
          /\ DLLHeader_count(dll'.header) = count - 1
          /\ \A i \in Slots \ {s} : dll'.nodes[i].event = dll.nodes[i].event
          /\ ret'.val = dll.nodes[s].event
          /\ \E k \in 1 .. Len(dllLive) : dllLive[k] = <<s, ret'.val>>
      ]_vars

\* delete_slot took an element from the middle of a full queue: used_head
\* stayed on slot 0 and the payload returned is not the head's
C20_Witness ==
    /\ Linked
    /\ Called("delete_slot")
    /\ ret.res = "Ok"
    /\ op[2] = 1
    /\ DLLHeader_used_head(dll.header) = 0
    /\ DLLHeader_count(dll.header) = MAX_NUM_EVENTS - 1
    /\ ret.val # dll.nodes[0].event


\* C21: linked layout, every reachable state with count > 0: for every used
\* slot s, node[s].next and node[s].prev are indices below N of used slots,
\* node[node[s].next].prev = s and node[node[s].prev].next = s;
\* node[used_head].prev is the slot of the most recently pushed element that
\* is still live; a single live element links to itself in both directions.
C21_CircularDoublyLinked ==
    (kind = "DLLEventQueue" /\ DLLHeader_count(dll.header) > 0) =>
      LET used == Range(LiveSlots)
          used_head == DLLHeader_used_head(dll.header)
      IN /\ used = UsedSet(dll)
         /\ \A s \in used :
              LET next == Node_next(dll.nodes[s])
                  prev == Node_prev(dll.nodes[s])
              IN /\ next \in used
                 /\ prev \in used
                 /\ ~Node_is_free(dll.nodes[next])
                 /\ ~Node_is_free(dll.nodes[prev])
                 /\ Node_prev(dll.nodes[next]) = s
                 /\ Node_next(dll.nodes[prev]) = s
         /\ used_head \in used
         /\ Node_prev(dll.nodes[used_head]) = dllLive[Len(dllLive)][1]
         /\ DLLHeader_count(dll.header) = 1 =>
              /\ Node_next(dll.nodes[used_head]) = used_head
              /\ Node_prev(dll.nodes[used_head]) = used_head

\* a full chain whose tail is a reused slot: after the head was deleted, the
\* push that refilled the queue linked slot 0 behind the last slot
C21_Witness ==
    /\ Linked
    /\ Called("push_back")
    /\ ret.res = "Ok"
    /\ dllPushes > MAX_NUM_EVENTS
    /\ DLLHeader_count(dll.header) = MAX_NUM_EVENTS
    /\ DLLHeader_used_head(dll.header) = 1
    /\ Node_prev(dll.nodes[1]) = 0
    /\ Node_next(dll.nodes[0]) = 1
    /\ Node_prev(dll.nodes[0]) = MAX_NUM_EVENTS - 1


\* C22: ring layout, every state reachable from the zero-filled arena by
\* push_back, pop_front and revert_pushes: seq_num >= count, so for every
\* desired_len that revert_pushes accepts, seq_num -= (count - desired_len)
\* does not go below zero: the call returns Ok and never traps.
C22_SeqNumCoversCount ==
    Ring =>
      LET count == EventQueueHeader_count(ring.header) IN
      /\ ring.header.seq_num >= count
      /\ \A desired_len \in 0 .. count :
           \A o \in EventQueue_revert_pushes(ring, desired_len) :
             /\ o.res = "Ok"
             /\ o.q.header.seq_num = ring.header.seq_num - (count - desired_len)
             /\ o.q.header.seq_num >= 0
      /\ Called("revert_pushes") => ret.res # "panic"

\* the tight case: nothing was popped, a full queue was cut back to one
\* element, and the subtraction left seq_num equal to count
C22_Witness ==
    /\ Ring
    /\ Called("revert_pushes")
    /\ ret.res = "Ok"
    /\ op[2] = 1
    /\ Len(ringPushed) >= MAX_NUM_EVENTS
    /\ ringPopped = <<>>
    /\ EventQueueHeader_count(ring.header) = 1
    /\ ring.header.seq_num = 1


\* ======================================================= lib.rs: ring_buf
\* the longest vector random_positions() is taken to return
MaxRemovals == 3

\* random_positions(): a vector of distinct positions of the full queue
RandomPositions ==
    {s \in UNION {[1 .. n -> Slots] : n \in 1 .. MaxRemovals} : Distinct(s)}

\* the payload OutEvent::new(Side::Bid, 0, 0, seq_num, [i as u8; 32], i) as a
\* number: the fields that vary, under the event type tag, which is not zero
OutEvent_new(seq_num, i) == 1 + (i % 256) + 256 * seq_num

\* Vec::sort on positions: ascending
RECURSIVE sort_insert(_, _)
sort_insert(s, x) ==
    IF s = <<>> THEN <<x>>
    ELSE IF x < Head(s) THEN <<x>> \o s
    ELSE <<Head(s)>> \o sort_insert(Tail(s), x)

RECURSIVE sort(_)
sort(s) == IF s = <<>> THEN <<>> ELSE sort_insert(sort(Tail(s)), Head(s))

\* buf.swap(a, b): panics unless both indices are below buf.len()
buf_swap(q, a, b) ==
    IF ~InBounds(a) \/ ~InBounds(b) THEN Panic(q)
    ELSE Ok([q EXCEPT !.buf = [@ EXCEPT ![a] = q.buf[b], ![b] = q.buf[a]]], ZeroEvent)

\* lines 47-49: one turn of the removal loop, i counting from 0; pos - i
\* below zero traps, or wraps to an index that swap rejects
ring_buf_remove(q, pos, i) ==
    IF pos < i THEN Panic(q)
    ELSE LET position_after_resizes == pos - i
             swapped == buf_swap(q, 0, position_after_resizes)
         IN IF swapped.res # "Ok" THEN swapped
            ELSE LET popped == EventQueue_pop_front(swapped.q)
                 IN IF popped.res = "Ok" THEN popped ELSE Panic(popped.q)

\* push_back(..).unwrap() of the two filling loops
ring_buf_push(q, i) ==
    LET pushed == EventQueue_push_back(q, OutEvent_new(q.header.seq_num, i))
    IN IF pushed.res = "Ok" THEN pushed ELSE Panic(pushed.q)

BenchFrame == UNCHANGED <<kind, ringPushed, ringPopped, ringLive>>
                /\ DllUnchanged /\ IterUnchanged

\* the handler's move to the state after a call with outcome o; the
\* transaction ends where a call panics
BenchStep(name, arg, o, after) ==
    /\ ring' = o.q
    /\ op' = <<name, arg>>
    /\ ret' = [res |-> o.res, val |-> o.val]
    /\ bench' = IF o.res = "Ok" THEN after ELSE [bench EXCEPT !.pc = "panic"]

\* lines 21-22: load_init() hands out the zero-filled account
RingBufLoad ==
    /\ kind = "EventQueue"
    /\ bench.pc = "idle"
    /\ ring = EventQueue_zeroed
    /\ \E random \in RandomPositions :
         bench' = [bench EXCEPT !.pc = "insert", !.random = random, !.i = 0]
    /\ op' = <<"ring_buf", ZeroEvent>>
    /\ UNCHANGED <<ring, ret>>
    /\ BenchFrame

\* lines 26-36: one turn of the insertion loop
RingBufInsert ==
    /\ bench.pc = "insert"
    /\ bench.i < MAX_NUM_EVENTS
    /\ BenchStep("insert", bench.i, ring_buf_push(ring, bench.i),
                 [bench EXCEPT !.i = bench.i + 1])
    /\ BenchFrame

\* lines 39-45: the insertion loop is over; sorted = random.clone().sort()
RingBufSort ==
    /\ bench.pc = "insert"
    /\ bench.i = MAX_NUM_EVENTS
    /\ bench' = [bench EXCEPT !.pc = "remove", !.sorted = sort(bench.random), !.i = 0]
    /\ op' = <<"sort", ZeroEvent>>
    /\ UNCHANGED <<ring, ret>>
    /\ BenchFrame

\* lines 46-50: one turn of the removal loop
RingBufRemove ==
    /\ bench.pc = "remove"
    /\ bench.i < Len(bench.sorted)
    /\ BenchStep("swap_pop", bench.sorted[bench.i + 1] - bench.i,
                 ring_buf_remove(ring, bench.sorted[bench.i + 1], bench.i),
                 [bench EXCEPT !.i = bench.i + 1])
    /\ BenchFrame

\* lines 51-54: the removal loop is over; refilling starts at current_len
RingBufCurrentLen ==
    /\ bench.pc = "remove"
    /\ bench.i = Len(bench.sorted)
    /\ bench' = [bench EXCEPT !.pc = "refill", !.i = EventQueueHeader_count(ring.header)]
    /\ op' = <<"current_len", ZeroEvent>>
    /\ UNCHANGED <<ring, ret>>
    /\ BenchFrame

\* lines 54-64: one turn of the refilling loop
RingBufRefill ==
    /\ bench.pc = "refill"
    /\ bench.i < MAX_NUM_EVENTS
    /\ BenchStep("refill", bench.i, ring_buf_push(ring, bench.i),
                 [bench EXCEPT !.i = bench.i + 1])
    /\ BenchFrame

\* lines 66-73: assert_eq!(count, MAX_NUM_EVENTS), then the bound of the
\* deleting loop is taken
RingBufAssert ==
    /\ bench.pc = "refill"
    /\ bench.i >= MAX_NUM_EVENTS
    /\ BenchStep("assert_eq", ZeroEvent,
                 IF EventQueueHeader_count(ring.header) = MAX_NUM_EVENTS
                 THEN Ok(ring, ZeroEvent) ELSE Panic(ring),
                 [bench EXCEPT !.pc = "delete", !.i = 0,
                               !.n = EventQueueHeader_count(ring.header)])
    /\ BenchFrame

\* lines 73-75: one turn of the deleting loop, pop_front().unwrap()
RingBufDelete ==
    /\ bench.pc = "delete"
    /\ bench.i < bench.n
    /\ LET popped == EventQueue_pop_front(ring)
       IN BenchStep("pop_front", ZeroEvent,
                    IF popped.res = "Ok" THEN popped ELSE Panic(popped.q),
                    [bench EXCEPT !.i = bench.i + 1])
    /\ BenchFrame

\* lines 76-78: Ok(())
RingBufReturn ==
    /\ bench.pc = "delete"
    /\ bench.i = bench.n
    /\ bench' = [bench EXCEPT !.pc = "done"]
    /\ op' = <<"return", ZeroEvent>>
    /\ ret' = [res |-> "Ok", val |-> ZeroEvent]
    /\ UNCHANGED ring
    /\ BenchFrame

NextRingBuf ==
    \/ RingBufLoad
    \/ RingBufInsert
    \/ RingBufSort
    \/ RingBufRemove
    \/ RingBufCurrentLen
    \/ RingBufRefill
    \/ RingBufAssert
    \/ RingBufDelete
    \/ RingBufReturn
SpecRingBuf == Init /\ [][NextRingBuf]_vars

\* the payloads in the live window of ring q
Live(q) == Range(RingItems(q))

\* C23: lib.rs ring_buf, every completed turn of the removal loop
\* (buf.swap(0, p), then pop_front, p = pos - i over the sorted positions):
\* the value pop_front returns is the one that was stored at buffer index p
\* before the swap, and every other element that was live before the turn is
\* still live after it.
C23_SwapToFrontThenPop ==
    [][(bench.pc = "remove" /\ bench'.pc = "remove" /\ bench'.i = bench.i + 1) =>
       LET p == bench.sorted[bench.i + 1] - bench.i IN
       /\ ret'.val = ring.buf[p]
       /\ (Live(ring) \ {ring.buf[p]}) \subseteq Live(ring')
      ]_vars

====
